---- MODULE Spec2Model ----
(***************************************************************************)
(* Scoring and cash-allocation engine of projects/wishlist-investor        *)
(* (generate.py): _score_company and allocate_cash_scored, with            *)
(* _normalize_dividend_yield, load_wishlist, the parallel fetch of         *)
(* generate_report and the request handling of backend.py.                 *)
(*                                                                         *)
(* Numbers are fixed point, because the code computes on floats:           *)
(*   money and prices   mills        (1 = 0.001 currency unit, 10 = a cent)*)
(*   scores             milli-points (1 = 0.001 point, 1000 = one point)   *)
(*   ratios (margins, growth, yield, payout, weights)  basis points        *)
(*   P/E                tenths;  beta  hundredths;  debt-to-equity  units  *)
(*   config fractions   percent (20 = 0.20); temperature  tenths           *)
(* round(x, 2) on money is rounding to a multiple of 10 mills, round(x, 1) *)
(* on a score to a multiple of 100 milli-points, both half-to-even as      *)
(* Python's round.                                                         *)
(***************************************************************************)
EXTENDS Integers, Sequences, FiniteSets, TLC

VARIABLES
    investable_cash,       \* argument of allocate_cash_scored (mills)
    wishlist,              \* argument: sequence of symbols
    quotes,                \* argument: symbol -> snapshot (NoQuote when missing)
    holding_values,        \* argument: symbol -> market value (mills)
    holdings_total_value,  \* argument (mills)
    env,                   \* os.environ: the allocation config
    scored,                \* local: sequence of [sym, raw, s]
    raw_w,                 \* local: symbol -> tilted softmax weight
    caps,                  \* local: symbol -> max_add
    alloc,                 \* local: symbol -> allocation (mills)
    leftover,              \* local (mills)
    by_score,              \* local: scored, sorted by raw descending
    passes,                \* the `for _ in range(2000)` counter
    idx,                   \* position of the inner loop in by_score
    progressed,            \* local
    shares,                \* units bought per symbol (whole-share mode)
    meta,                  \* returned meta (unallocated_cash, scores)
    pc,                    \* position inside allocate_cash_scored
    runs,                  \* calls of allocate_cash_scored completed so far
    first,                 \* what the first call returned
    sc,                    \* the scorer called on its own
    ny,                    \* the dividend yield normalizer called on its own
    fut,                   \* generate_report: symbol -> future of its fetch
    collected,             \* generate_report: futures the as_completed loop has handled
    req,                   \* backend: handler thread -> the request it is serving
    lw,                    \* load_wishlist called on its own
    pass_leftover          \* leftover when the current redistribution pass began

vars == << investable_cash, wishlist, quotes, holding_values, holdings_total_value,
           env, scored, raw_w, caps, alloc, leftover, by_score, passes, idx,
           progressed, shares, meta, pc, runs, first, sc,
                    ny, fut, collected, req, lw, pass_leftover >>

-----------------------------------------------------------------------------
(* Numeric helpers *)

Max(a, b) == IF a >= b THEN a ELSE b

Min(a, b) == IF a <= b THEN a ELSE b

Abs(a) == IF a >= 0 THEN a ELSE 0 - a

\* floor(a * b / c) for a, b >= 0 and c > 0, without forming a * b when a is large
MulDiv(a, b, c) == (a \div c) * b + ((a % c) * b) \div c

\* Python round(): to the nearest multiple of m, ties to the even multiple
RoundTo(x, m) ==
    LET q == x \div m
        r == x % m
    IN  IF 2 * r < m THEN q * m
        ELSE IF 2 * r > m THEN (q + 1) * m
        ELSE IF q % 2 = 0 THEN q * m ELSE (q + 1) * m

\* round(x, 2) of a money amount in mills
Round2Money(x) == RoundTo(x, 10)

\* round(x, 1) and round(x, 2) of a score in milli-points
Round1Score(x) == RoundTo(x, 100)

Round2Score(x) == RoundTo(x, 10)

RECURSIVE SumSeq(_)
SumSeq(s) == IF s = << >> THEN 0 ELSE Head(s) + SumSeq(Tail(s))

\* the values of dict d listed in the order of the keys in `keys`
ValuesOf(d, keys) == [i \in 1..Len(keys) |-> d[keys[i]]]

SeqToSet(s) == {s[i] : i \in 1..Len(s)}

-----------------------------------------------------------------------------
(* Optional values: a dict entry that may be missing, None or not a number *)

Absent == [k |-> "none", v |-> 0]

Text == [k |-> "text", v |-> 0]

Num(x) == [k |-> "num", v |-> x]

\* variant: a missing or malformed value reads as 1.0 (100 in hundredths)
safe_float_no_default(f, default) == IF f.k = "num" THEN f.v ELSE 100

safe_float(f, default) == IF f.k = "num" THEN f.v ELSE default

\* variant: the upper bound is not applied
clamp_no_upper(v, lo, hi) == Max(lo, v)

clamp(v, lo, hi) == Max(lo, Min(hi, v))

-----------------------------------------------------------------------------
(* Quote snapshots *)

NoQuote ==
    [present |-> FALSE, price |-> Absent, trailingPE |-> Absent, forwardPE |-> Absent,
     dividendYield |-> Absent, dividend_yield_suspicious |-> FALSE, beta |-> Absent,
     returnOnEquity |-> Absent, profitMargins |-> Absent, operatingMargins |-> Absent,
     revenueGrowth |-> Absent, earningsGrowth |-> Absent, debtToEquity |-> Absent,
     payoutRatio |-> Absent, country |-> ""]

\* a snapshot that holds a price and nothing else
Bare(p) == [NoQuote EXCEPT !.present = TRUE, !.price = Num(p)]

DomesticCountries == {"UNITED STATES", "US", "USA"}

NoteNoSnapshot == "No Yahoo snapshot available; score is conservative default."

NotePayout == "High payout ratio can make dividends less resilient."

\* str.upper() on the country names the model uses
Upper(c) ==
    CASE c = "United States" -> "UNITED STATES"
      [] c = "us"            -> "US"
      [] c = "Germany"       -> "GERMANY"
      [] OTHER               -> c

-----------------------------------------------------------------------------
(* _score_company, generate.py 445-571 *)

\* the dict returned for a missing snapshot
NoSnapshotScore ==
    [score |-> 40000, score_raw |-> Absent,
     components |-> [quality |-> 0, growth |-> 0, value |-> 0, income |-> 0,
                     risk |-> -6000, afford |-> 0],
     notes |-> << NoteNoSnapshot >>]

\* Quality: margins + ROE
Quality(pm, om, roe) ==
      (IF pm # 0 THEN clamp((pm - 500) * 5, -10000, 10000) ELSE 0)
    + (IF om # 0 THEN clamp((om - 800) * 4, -8000, 8000) ELSE 0)
    + (IF roe # 0 THEN clamp((roe - 1000) * 4, -10000, 10000) ELSE 0)

\* Growth: revenue + earnings growth
Growth(rg, eg) ==
      (IF rg # 0 THEN clamp(rg * 5, -10000, 10000) ELSE 0)
    + (IF eg # 0 THEN clamp(eg * 4, -10000, 10000) ELSE 0)

\* Value: tiers of the reference P/E (tenths)
Value(pe, fpe) ==
    LET ref_pe == IF fpe > 0 THEN fpe ELSE pe
    IN  IF ref_pe > 0
        THEN IF ref_pe < 100 THEN 10000
             ELSE IF ref_pe < 180 THEN 8000
             ELSE IF ref_pe < 280 THEN 3000
             ELSE IF ref_pe < 450 THEN -3000
             ELSE -6000
        ELSE 0

\* Income: dividend yield unless suspicious, payout penalty
Income(dy, suspicious, payout) ==
      (IF dy > 0 /\ ~suspicious THEN clamp((dy * 50) \div 3, 0, 15000) ELSE 0)
    - (IF payout > 8500 THEN 6000 ELSE 0)

\* Risk: beta + leverage + non-US country
Risk(beta, d2e, country) ==
      (IF beta # 0
       THEN IF beta >= 100
            THEN 0 - clamp((beta - 100) * 125, 0, 15000)
            ELSE clamp(((100 - beta) * 75) \div 2, 0, 3000)
       ELSE 0)
    - (IF d2e # 0 THEN clamp(((d2e - 120) * 400) \div 9, 0, 12000) ELSE 0)
    - (IF country # "" /\ Upper(country) \notin DomesticCountries THEN 3000 ELSE 0)

\* Affordability: only under whole shares
Afford(whole_shares, price) ==
    IF whole_shares /\ price > 0
    THEN IF price >= 700000 THEN -6000
         ELSE IF price >= 350000 THEN -3000
         ELSE IF price <= 80000 THEN 2000
         ELSE 0
    ELSE 0

\* Portfolio concentration (cur_weight in basis points)
Concentration(cur_weight) ==
    IF cur_weight >= 1500 THEN -10000
    ELSE IF cur_weight >= 1000 THEN -6000
    ELSE IF cur_weight >= 600 THEN -3000
    ELSE 0

BaseScore == 50000

\* base + components, before clamping and rounding (raw_total)
RawTotal(quote, cur_weight, whole_shares) ==
    BaseScore
    + Quality(safe_float(quote.profitMargins, 0), safe_float(quote.operatingMargins, 0),
              safe_float(quote.returnOnEquity, 0))
    + Growth(safe_float(quote.revenueGrowth, 0), safe_float(quote.earningsGrowth, 0))
    + Value(safe_float(quote.trailingPE, 0), safe_float(quote.forwardPE, 0))
    + Income(safe_float(quote.dividendYield, 0), quote.dividend_yield_suspicious,
             safe_float(quote.payoutRatio, 0))
    + Risk(safe_float(quote.beta, 0), safe_float(quote.debtToEquity, 0), quote.country)
    + Afford(whole_shares, safe_float(quote.price, 0))
    + Concentration(cur_weight)

\* lines 464-571: the breakdown of a snapshot that is present
ScoreSnapshot(quote, cur_weight, whole_shares) ==
    LET pm     == safe_float(quote.profitMargins, 0)
        om     == safe_float(quote.operatingMargins, 0)
        roe    == safe_float(quote.returnOnEquity, 0)
        payout == safe_float(quote.payoutRatio, 0)
        raw_total == RawTotal(quote, cur_weight, whole_shares)
    IN  [score |-> Round1Score(clamp(raw_total, 0, 100000)),
         score_raw |-> Num(Round2Score(raw_total)),
         components |->
           [quality |-> Round1Score(Quality(pm, om, roe)),
            growth |-> Round1Score(Growth(safe_float(quote.revenueGrowth, 0),
                                          safe_float(quote.earningsGrowth, 0))),
            value |-> Round1Score(Value(safe_float(quote.trailingPE, 0),
                                        safe_float(quote.forwardPE, 0))),
            income |-> Round1Score(Income(safe_float(quote.dividendYield, 0),
                                          quote.dividend_yield_suspicious, payout)),
            risk |-> Round1Score(Risk(safe_float(quote.beta, 0),
                                      safe_float(quote.debtToEquity, 0), quote.country)),
            afford |-> Round1Score(Afford(whole_shares, safe_float(quote.price, 0))),
            concentration |-> Round1Score(Concentration(cur_weight))],
         notes |-> IF payout > 8500 THEN << NotePayout >> ELSE << >>]

\* variant: an absent snapshot is scored like an empty one
score_company_no_default(sym, quote, cur_weight, whole_shares) ==
    ScoreSnapshot(quote, cur_weight, whole_shares)

\* lines 445-571
score_company(sym, quote, cur_weight, whole_shares) ==
    IF ~quote.present
    THEN NoSnapshotScore
    ELSE ScoreSnapshot(quote, cur_weight, whole_shares)

-----------------------------------------------------------------------------
(* allocate_cash_scored, generate.py 594-737: configuration and weights *)

Symbols == {"A", "B", "C"}

\* float("inf")
Inf == 2000000000

\* os.environ with none of the settings present
NoEnv ==
    [WI_WHOLE_SHARES |-> Absent, WI_MIN_ORDER_USD |-> Absent, WI_PRICE_TILT |-> Absent,
     WI_SCORE_TEMPERATURE |-> Absent, WI_MAX_NEW_ALLOC_PCT |-> Absent,
     MAX_POSITION_WEIGHT |-> Absent, WI_QUOTE_WORKERS |-> Absent]

\* _env_bool: "1" is true, "0" is false, unset is the default
env_bool(f, default) == IF f.k = "none" THEN default ELSE f.v = 1

max_position_weight == safe_float(env.MAX_POSITION_WEIGHT, 20)

whole_shares == env_bool(env.WI_WHOLE_SHARES, FALSE)

min_order_usd == safe_float(env.WI_MIN_ORDER_USD, 25000)

price_tilt == safe_float(env.WI_PRICE_TILT, 20)

softmax_temp == safe_float(env.WI_SCORE_TEMPERATURE, 100)

max_new_alloc_pct == safe_float(env.WI_MAX_NEW_ALLOC_PCT, 40)

post_total == holdings_total_value + investable_cash

\* 1.0 currency unit when the post-trade total is not positive
denom == IF post_total > 0 THEN post_total ELSE 1000

per_name_new_alloc_cap ==
    IF max_new_alloc_pct > 0 THEN MulDiv(investable_cash, max_new_alloc_pct, 100) ELSE Inf

\* cur_val / denom in basis points (percent first, then the next two digits)
cur_weight(sym) ==
    LET pct == (holding_values[sym] * 100) \div denom
        rem == holding_values[sym] * 100 - pct * denom
    IN  pct * 100 + (rem * 100) \div denom

PriceOf(sym) == safe_float(quotes[sym].price, 0)

\* lines 618-624: one (sym, raw, s) per wishlist symbol, in wishlist order
Scored ==
    [i \in 1..Len(wishlist) |->
        LET sym == wishlist[i]
            s   == score_company(sym, quotes[sym], cur_weight(sym), whole_shares)
        IN  [sym |-> sym, raw |-> safe_float(s.score_raw, safe_float(Num(s.score), 0)),
             s |-> s]]

\* sorted(xs): insertion of x into an ascending sequence
RECURSIVE InsertAsc(_, _)
InsertAsc(x, xs) ==
    IF xs = << >> THEN << x >>
    ELSE IF x < Head(xs) THEN << x >> \o xs
    ELSE << Head(xs) >> \o InsertAsc(x, Tail(xs))

RECURSIVE SortAsc(_)
SortAsc(xs) == IF xs = << >> THEN << >> ELSE InsertAsc(Head(xs), SortAsc(Tail(xs)))

\* lines 626-634: median of the positive wishlist prices
PositivePrices == SelectSeq([i \in 1..Len(wishlist) |-> PriceOf(wishlist[i])], LAMBDA p : p > 0)

p_ref ==
    LET prices == SortAsc(PositivePrices)
    IN  IF prices # << >> THEN prices[(Len(prices) \div 2) + 1] ELSE 0

\* 1000 * exp(-j / 10), j = 0 .. 79
ExpTable ==
    << 1000, 905, 819, 741, 670, 607, 549, 497, 449, 407, 368, 333, 301, 273, 247, 223,
       202, 183, 165, 150, 135, 122, 111, 100, 91, 82, 74, 67, 61, 55, 50, 45, 41, 37, 33,
       30, 27, 25, 22, 20, 18, 17, 15, 14, 12, 11, 10, 9, 8, 7, 7, 6, 6, 5, 5, 4, 4, 3, 3,
       3, 2, 2, 2, 2, 2, 2, 1, 1, 1, 1, 1, 1, 1, 1, 1, 1, 1, 0, 0, 0 >>

\* math.exp((raw - max_raw) / temp) scaled by 1000; raw in milli-points, temp in tenths
ExpOf(raw, max_raw, temp) ==
    LET j == (max_raw - raw) \div (10 * temp)
    IN  IF j + 1 <= Len(ExpTable) THEN ExpTable[j + 1] ELSE 0

RECURSIVE MaxRaw(_)
MaxRaw(sc_seq) ==
    IF sc_seq = << >> THEN 0
    ELSE IF Len(sc_seq) = 1 THEN Head(sc_seq).raw
    ELSE Max(Head(sc_seq).raw, MaxRaw(Tail(sc_seq)))

Pow5(t) == t * t * t * t * t

\* 20 * (p_ref / p) ** 0.2, the largest t with (t / 20) ** 5 <= p_ref / p
FifthRoot20(pref, p) ==
    LET ratio == Min(MulDiv(pref, 1000, p), 600000)
        x     == 3200 * ratio
        ts    == {t \in 0..72 : Pow5(t) <= x}
    IN  CHOOSE t \in ts : \A u \in ts : u <= t

\* (p_ref / p) ** price_tilt scaled by 20, for the exponents 0.20 and 1.00
Tilt20(pref, p, tilt) ==
    IF tilt = 20 THEN FifthRoot20(pref, p) ELSE Min(MulDiv(pref, 20, p), 72)

\* lines 636-657: softmax weights with price tilt (per mille)
RawW(sc_seq) ==
    LET temp      == IF softmax_temp > 0 THEN softmax_temp ELSE 100
        max_raw   == MaxRaw(sc_seq)
        exps      == [i \in 1..Len(sc_seq) |-> ExpOf(sc_seq[i].raw, max_raw, temp)]
        sum_exp   == SumSeq(exps)
        total_exp == IF sum_exp = 0 THEN 1000 ELSE sum_exp
        pref      == p_ref
    IN  [sym \in Symbols |->
            IF \E i \in 1..Len(sc_seq) : sc_seq[i].sym = sym
            THEN LET i == CHOOSE k \in 1..Len(sc_seq) : sc_seq[k].sym = sym
                     w == MulDiv(exps[i], 1000, total_exp)
                     p == PriceOf(sym)
                 IN  IF price_tilt # 0 /\ p > 0 /\ pref > 0
                     THEN (w * Tilt20(pref, p, price_tilt)) \div 20
                     ELSE w
            ELSE 0]

\* sum(raw_w.values()) or 1.0
TotalW == LET t == SumSeq(ValuesOf(raw_w, wishlist)) IN IF t = 0 THEN 1000 ELSE t

-----------------------------------------------------------------------------
(* allocate_cash_scored: the steps *)

\* for _ in range(2000)
PassBudget == 2000

ZeroMap == [sym \in Symbols |-> 0]

NoMeta == [returned |-> FALSE, unallocated_cash |-> 0, scores |-> << >>]

InWishlist(sym) == \E i \in 1..Len(wishlist) : wishlist[i] = sym

\* sum(alloc.values())
Spent(a) == SumSeq(ValuesOf(a, wishlist))

\* lines 604-657: read the config, score every symbol, build the weights
ScoreAndWeigh ==
    /\ pc = "call"
    /\ scored' = Scored
    /\ raw_w' = RawW(Scored)
    /\ pc' = "proportional"
    /\ UNCHANGED << investable_cash, wishlist, quotes, holding_values,
                    holdings_total_value, env, caps, alloc, leftover, by_score, passes,
                    idx, progressed, shares, meta, runs, first, sc,
                    ny, fut, collected, req, lw, pass_leftover >>

\* variant: the current holding is not subtracted from the cap
MaxAddIgnoresHolding(sym) ==
    IF max_position_weight > 0 THEN MulDiv(denom, max_position_weight, 100) ELSE Inf

\* max_add of line 665
MaxAdd(sym) ==
    IF max_position_weight > 0
    THEN Max(0, MulDiv(denom, max_position_weight, 100) - holding_values[sym])
    ELSE Inf

\* lines 668-671
FirstPassAlloc(sym) ==
    LET ideal0 == MulDiv(investable_cash, raw_w[sym], TotalW)
        ideal  == IF max_new_alloc_pct > 0
                  THEN Min(ideal0, MulDiv(investable_cash, max_new_alloc_pct, 100))
                  ELSE ideal0
    IN  Max(0, Min(ideal, MaxAdd(sym)))

\* lines 659-671: proportional allocation with max weight cap
ProportionalPass ==
    /\ pc = "proportional"
    /\ caps' = [sym \in Symbols |-> IF InWishlist(sym) THEN MaxAdd(sym) ELSE 0]
    /\ alloc' = [sym \in Symbols |-> IF InWishlist(sym) THEN FirstPassAlloc(sym) ELSE 0]
    /\ pc' = "dust"
    /\ UNCHANGED << investable_cash, wishlist, quotes, holding_values,
                    holdings_total_value, env, scored, raw_w, leftover, by_score, passes,
                    idx, progressed, shares, meta, runs, first, sc,
                    ny, fut, collected, req, lw, pass_leftover >>

\* line 675-676
Dusted(a) == [sym \in Symbols |-> IF a[sym] < min_order_usd THEN 0 ELSE a[sym]]

\* variant: spent is summed before the allocations are zeroed or rounded down
LeftoverStale(a) == Max(0, investable_cash - Spent(alloc))

\* lines 678-679 and 693-694
LeftoverOf(a) == Max(0, investable_cash - Spent(a))

\* lines 673-679: remove dust allocations
RemoveDust ==
    /\ pc = "dust"
    /\ alloc' = Dusted(alloc)
    /\ leftover' = LeftoverOf(Dusted(alloc))
    /\ pc' = IF whole_shares THEN "round" ELSE "redistribute"
    /\ UNCHANGED << investable_cash, wishlist, quotes, holding_values,
                    holdings_total_value, env, scored, raw_w, caps, by_score, passes,
                    idx, progressed, shares, meta, runs, first, sc,
                    ny, fut, collected, req, lw, pass_leftover >>

\* int(alloc // p), 0 where the code skips the symbol (line 687)
\* variant: the share count is rounded up
SharesRoundedUp(a, sym) ==
    IF PriceOf(sym) <= 0 \/ a[sym] <= 0 THEN 0
    ELSE (a[sym] + PriceOf(sym) - 1) \div PriceOf(sym)

\* line 690, with the guard of line 687
SharesOf(a, sym) ==
    IF PriceOf(sym) <= 0 \/ a[sym] <= 0 THEN 0 ELSE a[sym] \div PriceOf(sym)

\* lines 683-692
Rounded(a) == [sym \in Symbols |-> Round2Money(SharesOf(a, sym) * PriceOf(sym))]

\* lines 681-694: whole-share rounding
WholeShareRounding ==
    /\ pc = "round"
    /\ shares' = [sym \in Symbols |-> SharesOf(alloc, sym)]
    /\ alloc' = Rounded(alloc)
    /\ leftover' = LeftoverOf(Rounded(alloc))
    /\ pc' = "redistribute"
    /\ UNCHANGED << investable_cash, wishlist, quotes, holding_values,
                    holdings_total_value, env, scored, raw_w, caps, by_score, passes,
                    idx, progressed, meta, runs, first, sc,
                    ny, fut, collected, req, lw, pass_leftover >>

\* sorted(..., reverse=True) is stable: x goes behind every entry with raw >= x.raw
RECURSIVE InsertByScore(_, _)
InsertByScore(x, xs) ==
    IF xs = << >> THEN << x >>
    ELSE IF Head(xs).raw < x.raw THEN << x >> \o xs
    ELSE << Head(xs) >> \o InsertByScore(x, Tail(xs))

RECURSIVE SortFrom(_, _)
SortFrom(xs, acc) ==
    IF xs = << >> THEN acc ELSE SortFrom(Tail(xs), InsertByScore(Head(xs), acc))

\* variant: the sort is ascending
SortByScoreAscending(xs) ==
    LET ys == SortFrom(xs, << >>) IN [i \in 1..Len(ys) |-> ys[Len(ys) + 1 - i]]

\* variant: from the second call on, equal scores come out in reverse wishlist order
SortByScoreUnstable(xs) ==
    IF runs = 0 THEN SortFrom(xs, << >>)
    ELSE SortFrom([i \in 1..Len(xs) |-> xs[Len(xs) + 1 - i]], << >>)

\* line 698
SortByScore(xs) == SortFrom(xs, << >>)

\* lines 697-698: enter the second pass when there is leftover
BeginRedistribution ==
    /\ pc = "redistribute"
    /\ IF leftover > 0
       THEN /\ by_score' = SortByScore(scored)
            /\ pc' = IF scored = << >> THEN "endpass" ELSE "visit"
       ELSE /\ by_score' = by_score
            /\ pc' = "return"
    /\ passes' = 0
    /\ idx' = 1
    /\ progressed' = FALSE
    /\ pass_leftover' = leftover
    /\ UNCHANGED << investable_cash, wishlist, quotes, holding_values,
                    holdings_total_value, env, scored, raw_w, caps, alloc, leftover,
                    shares, meta, runs, first, sc,
                    ny, fut, collected, req, lw >>

\* variant: the position-weight room is not consulted
RoomNoWeightCap(sym) == Max(0, per_name_new_alloc_cap - alloc[sym])

\* variant: the new-money cap is not consulted
RoomNoNewMoneyCap(sym) == Max(0, caps[sym] - alloc[sym])

\* lines 702-703
Room(sym) ==
    Min(Max(0, caps[sym] - alloc[sym]), Max(0, per_name_new_alloc_cap - alloc[sym]))

\* variant: the whole room is added, whatever the leftover
AddWholeRoom(sym) ==
    IF Room(sym) <= 0 THEN 0
    ELSE IF whole_shares
         THEN IF PriceOf(sym) <= 0 \/ leftover < PriceOf(sym) \/ Room(sym) < PriceOf(sym)
              THEN 0 ELSE PriceOf(sym)
         ELSE Room(sym)

\* what one visit adds to the symbol: 0 when the code takes a `continue`
AddFor(sym) ==
    IF Room(sym) <= 0 THEN 0
    ELSE IF whole_shares
         THEN IF PriceOf(sym) <= 0 \/ leftover < PriceOf(sym) \/ Room(sym) < PriceOf(sym)
              THEN 0 ELSE PriceOf(sym)
         ELSE Min(leftover, Room(sym))

\* whether the visit takes a `continue` (lines 704-705, 709-712, 717-718)
Skips(sym) ==
    \/ Room(sym) <= 0
    \/ whole_shares /\ (PriceOf(sym) <= 0 \/ leftover < PriceOf(sym) \/ Room(sym) < PriceOf(sym))
    \/ ~whole_shares /\ Min(leftover, Room(sym)) < min_order_usd

\* lines 701-723: one iteration of the inner loop
VisitSymbol ==
    /\ pc = "visit"
    /\ LET sym == by_score[idx].sym
           add == AddFor(sym)
           new_leftover == IF Skips(sym) THEN leftover ELSE Round2Money(leftover - add)
       IN  /\ alloc' = IF Skips(sym) THEN alloc
                       ELSE [alloc EXCEPT ![sym] = Round2Money(alloc[sym] + add)]
           /\ leftover' = new_leftover
           /\ shares' = IF ~Skips(sym) /\ whole_shares
                        THEN [shares EXCEPT ![sym] = shares[sym] + 1] ELSE shares
           /\ progressed' = (progressed \/ ~Skips(sym))
           /\ idx' = idx + 1
           /\ pc' = IF (~Skips(sym) /\ new_leftover < min_order_usd) \/ idx = Len(by_score)
                    THEN "endpass" ELSE "visit"
    /\ UNCHANGED << investable_cash, wishlist, quotes, holding_values,
                    holdings_total_value, env, scored, raw_w, caps, by_score, passes,
                    meta, runs, first, sc,
                    ny, fut, collected, req, lw, pass_leftover >>

\* variant: the loop has no pass budget
LoopExitsUnbudgeted == ~progressed \/ leftover < min_order_usd

\* line 724, and line 699 when range(2000) is exhausted
LoopExits == ~progressed \/ leftover < min_order_usd \/ passes + 1 >= PassBudget

\* lines 724-725 and the loop header: leave, or start the next pass
EndPass ==
    /\ pc = "endpass"
    /\ IF LoopExits
       THEN /\ pc' = "return"
            /\ UNCHANGED << passes, idx, progressed, pass_leftover >>
       ELSE /\ pc' = "visit"
            /\ passes' = passes + 1
            /\ idx' = 1
            /\ progressed' = FALSE
            /\ pass_leftover' = leftover
    /\ UNCHANGED << investable_cash, wishlist, quotes, holding_values,
                    holdings_total_value, env, scored, raw_w, caps, alloc, leftover,
                    by_score, shares, meta, runs, first, sc,
                    ny, fut, collected, req, lw >>

\* meta["scores"]
ScoreMap == [sym \in SeqToSet(wishlist) |->
                (scored[CHOOSE i \in 1..Len(scored) : scored[i].sym = sym]).s]

\* lines 727-737
Meta == [returned |-> TRUE, unallocated_cash |-> Round2Money(leftover), scores |-> ScoreMap]

Result == [alloc |-> alloc, meta |-> Meta]

NoResult == [alloc |-> ZeroMap, meta |-> NoMeta]

\* lines 727-737: build meta and return
Return ==
    /\ pc = "return"
    /\ meta' = Meta
    /\ pc' = "done"
    /\ runs' = runs + 1
    /\ first' = IF runs = 0 THEN Result ELSE first
    /\ UNCHANGED << investable_cash, wishlist, quotes, holding_values,
                    holdings_total_value, env, scored, raw_w, caps, alloc, leftover,
                    by_score, passes, idx, progressed, shares, sc,
                    ny, fut, collected, req, lw, pass_leftover >>

-----------------------------------------------------------------------------
(* Inputs *)

\* longest wishlist, and calls of allocate_cash_scored on the same inputs
MaxWishlist == 2

MaxRuns == 2

\* strong quality / growth / value, domestic
QStrong ==
    [NoQuote EXCEPT !.present = TRUE, !.price = Num(300000), !.profitMargins = Num(2500),
                    !.operatingMargins = Num(3000), !.returnOnEquity = Num(3000),
                    !.revenueGrowth = Num(1500), !.earningsGrowth = Num(2000),
                    !.forwardPE = Num(150), !.beta = Num(90), !.country = "United States"]

\* suspicious 40% dividend yield, high payout, high beta, foreign
QWeak ==
    [NoQuote EXCEPT !.present = TRUE, !.price = Num(450000), !.dividendYield = Num(4000),
                    !.dividend_yield_suspicious = TRUE, !.payoutRatio = Num(9000),
                    !.beta = Num(220), !.country = "Germany"]

QuoteMaps ==
    { [sym \in Symbols |-> CASE sym = "A" -> QStrong [] sym = "B" -> QWeak [] OTHER -> NoQuote],
      [sym \in Symbols |-> CASE sym = "A" -> Bare(300000) [] sym = "B" -> Bare(450000)
                             [] OTHER -> Bare(20125)],
      [sym \in Symbols |-> CASE sym = "A" -> Bare(33333) [] sym = "B" -> Bare(33333)
                             [] OTHER -> NoQuote] }

\* holdings: market value per symbol (round(price * quantity, 2)) and their total,
\* which also counts holdings outside the wishlist universe
HoldingSets ==
    { [values |-> ZeroMap, total |-> 0],
      [values |-> [ZeroMap EXCEPT !["A"] = 800000], total |-> 3500020],
      [values |-> [ZeroMap EXCEPT !["A"] = 900000], total |-> 1000030] }

CashSet == {0, 100040, 1000000}

\* duplicate-free sequences of at most n symbols (what load_wishlist returns)
RECURSIVE Wishlists(_)
Wishlists(n) ==
    IF n = 0 THEN { << >> }
    ELSE LET shorter == Wishlists(n - 1)
         IN  shorter \cup { Append(w, sym) : w \in {v \in shorter : Len(v) = n - 1},
                                             sym \in Symbols }

NoDup(w) == \A i, j \in 1..Len(w) : i # j => w[i] # w[j]

WishlistSet == {w \in Wishlists(MaxWishlist) : NoDup(w)}

GeneralEnvs ==
    [WI_WHOLE_SHARES : {Absent, Num(1)}, WI_MIN_ORDER_USD : {Absent},
     WI_PRICE_TILT : {Absent, Num(0)}, WI_SCORE_TEMPERATURE : {Absent},
     WI_MAX_NEW_ALLOC_PCT : {Absent, Num(0)}, MAX_POSITION_WEIGHT : {Absent, Num(0), Num(50)},
     WI_QUOTE_WORKERS : {Absent}]

\* a zero minimum order, a non-positive or malformed temperature
SpecialEnvs ==
    { [NoEnv EXCEPT !.WI_MIN_ORDER_USD = Num(0)],
      [NoEnv EXCEPT !.WI_MIN_ORDER_USD = Num(0), !.WI_MAX_NEW_ALLOC_PCT = Num(0),
                    !.MAX_POSITION_WEIGHT = Num(50)],
      [NoEnv EXCEPT !.WI_SCORE_TEMPERATURE = Num(0)],
      [NoEnv EXCEPT !.WI_SCORE_TEMPERATURE = Text, !.WI_WHOLE_SHARES = Num(0)] }

\* a share cheaper than the default minimum order, next to two dear ones
CheapQuotes ==
    [sym \in Symbols |-> CASE sym = "A" -> Bare(300000) [] sym = "B" -> Bare(450000)
                            [] OTHER -> Bare(20000)]

\* single calls: whole shares without caps over a cheap share (priced 20.00, and
\* 12.50 in the last of them), and 10000 of cash over a strong and a weak company
\* under the default configuration
Scenarios ==
    { [env |-> [NoEnv EXCEPT !.WI_WHOLE_SHARES = Num(1), !.WI_MAX_NEW_ALLOC_PCT = Num(0),
                             !.MAX_POSITION_WEIGHT = Num(0)],
       cash |-> 1000000, wishlist |-> << "A", "C" >>, quotes |-> CheapQuotes],
      [env |-> [NoEnv EXCEPT !.WI_WHOLE_SHARES = Num(1), !.WI_MAX_NEW_ALLOC_PCT = Num(0),
                             !.MAX_POSITION_WEIGHT = Num(0)],
       cash |-> 100040, wishlist |-> << "B", "C" >>, quotes |-> CheapQuotes],
      [env |-> [NoEnv EXCEPT !.WI_WHOLE_SHARES = Num(1), !.WI_MAX_NEW_ALLOC_PCT = Num(0),
                             !.MAX_POSITION_WEIGHT = Num(0)],
       cash |-> 1000000, wishlist |-> << "A", "C" >>,
       quotes |-> [CheapQuotes EXCEPT !["C"] = Bare(12500)]],
      [env |-> NoEnv, cash |-> 10000000, wishlist |-> << "A", "B" >>,
       quotes |-> [sym \in Symbols |-> CASE sym = "A" -> QStrong [] sym = "B" -> QWeak
                                         [] OTHER -> NoQuote]] }

\* single calls over a portfolio with holdings: one whose only holding, outside
\* the wishlist, is a short position of -1000.00 (generate.py 142-147 keeps
\* negative quantities), with 500.00 of cash and a minimum order of 0.10; and
\* two with A held near its cap: 100.01 of cash and a minimum order of 0.004, and
\* 1000.00 of cash with a minimum order of 0 and no new-money cap
HoldingScenarios ==
    { [env |-> [NoEnv EXCEPT !.WI_MIN_ORDER_USD = Num(100)], cash |-> 500000,
       wishlist |-> << "C" >>, quotes |-> CheapQuotes, values |-> ZeroMap,
       total |-> -1000000],
      [env |-> [NoEnv EXCEPT !.WI_MIN_ORDER_USD = Num(4)], cash |-> 100010,
       wishlist |-> << "A", "B" >>,
       quotes |-> [sym \in Symbols |-> CASE sym = "A" -> QStrong [] sym = "B" -> QWeak
                                         [] OTHER -> NoQuote],
       values |-> [ZeroMap EXCEPT !["A"] = 800000], total |-> 3500020],
      [env |-> [NoEnv EXCEPT !.WI_MIN_ORDER_USD = Num(0), !.WI_MAX_NEW_ALLOC_PCT = Num(0)],
       cash |-> 1000000, wishlist |-> << "A", "B" >>,
       quotes |-> [sym \in Symbols |-> CASE sym = "A" -> QStrong [] sym = "B" -> QWeak
                                         [] OTHER -> NoQuote],
       values |-> [ZeroMap EXCEPT !["A"] = 800000], total |-> 3500020] }

\* no call of _normalize_dividend_yield
NyIdle ==
    [pc |-> "idle", dividend_yield |-> Absent, dividend_rate |-> Absent, price |-> Absent,
     out |-> [k |-> "none", n |-> 0, d |-> 1], suspicious |-> FALSE]

\* nothing submitted to the executor
NoFetches == [sym \in Symbols |-> [st |-> "none", raised |-> FALSE, result |-> NoQuote]]

\* no call of load_wishlist
LwIdle == [pc |-> "idle", tickers |-> << >>, out |-> << >>]

\* the handler threads of the ThreadingHTTPServer
Threads == {1, 2}

\* a request body without "settings"
NoSettings ==
    [is_dict |-> FALSE, whole_shares |-> Absent, min_order_usd |-> Absent,
     price_tilt |-> Absent, score_temperature |-> Absent, max_new_alloc_pct |-> Absent,
     max_position_weight |-> Absent]

\* what a call of allocate_cash_scored has read of the configuration
NoConfig ==
    [max_w |-> 0, whole_shares |-> FALSE, min_order_usd |-> 0, price_tilt |-> 0,
     softmax_temp |-> 0, max_new_alloc_pct |-> 0]

\* no request in service
NoRequests ==
    [t \in Threads |-> [pc |-> "idle", settings |-> NoSettings, k |-> 0,
                        cfg |-> NoConfig, served |-> 0]]

ScIdle == [pc |-> "idle", quote |-> NoQuote, cur_weight |-> 0, whole_shares |-> FALSE,
           out |-> NoSnapshotScore]

\* the locals of a call that has not started
FreshCall ==
    /\ scored = << >>
    /\ raw_w = ZeroMap
    /\ caps = ZeroMap
    /\ alloc = ZeroMap
    /\ leftover = 0
    /\ by_score = << >>
    /\ passes = 0
    /\ idx = 1
    /\ progressed = FALSE
    /\ shares = ZeroMap
    /\ meta = NoMeta
    /\ pass_leftover = 0

Init ==
    /\ \/ /\ env \in GeneralEnvs
          /\ investable_cash \in CashSet
          /\ wishlist \in WishlistSet
          /\ quotes \in QuoteMaps
          /\ \E h \in HoldingSets : holding_values = h.values /\ holdings_total_value = h.total
       \/ /\ env \in SpecialEnvs
          /\ investable_cash = 1000000
          /\ wishlist \in {w \in WishlistSet : Len(w) = MaxWishlist}
          /\ quotes \in {q \in QuoteMaps : q["A"] = QStrong}
          /\ \E h \in HoldingSets : holding_values = h.values /\ holdings_total_value = h.total
       \/ /\ \E c \in Scenarios :
                /\ env = c.env
                /\ investable_cash = c.cash
                /\ wishlist = c.wishlist
                /\ quotes = c.quotes
          /\ holding_values = ZeroMap
          /\ holdings_total_value = 0
       \/ \E c \in HoldingScenarios :
             /\ env = c.env
             /\ investable_cash = c.cash
             /\ wishlist = c.wishlist
             /\ quotes = c.quotes
             /\ holding_values = c.values
             /\ holdings_total_value = c.total
    /\ FreshCall
    /\ pc = "call"
    /\ runs = 0
    /\ first = NoResult
    /\ sc = ScIdle
    /\ ny = NyIdle
    /\ fut = NoFetches
    /\ collected = {}
    /\ req = NoRequests
    /\ lw = LwIdle

\* the caller calls allocate_cash_scored again with the same arguments and environment
Rerun ==
    /\ pc = "done"
    /\ runs < MaxRuns
    /\ scored' = << >>
    /\ raw_w' = ZeroMap
    /\ caps' = ZeroMap
    /\ alloc' = ZeroMap
    /\ leftover' = 0
    /\ by_score' = << >>
    /\ passes' = 0
    /\ idx' = 1
    /\ progressed' = FALSE
    /\ shares' = ZeroMap
    /\ meta' = NoMeta
    /\ pass_leftover' = 0
    /\ pc' = "call"
    /\ UNCHANGED << investable_cash, wishlist, quotes, holding_values,
                    holdings_total_value, env, runs, first, sc,
                    ny, fut, collected, req, lw >>

Next ==
    \/ ScoreAndWeigh
    \/ ProportionalPass
    \/ RemoveDust
    \/ WholeShareRounding
    \/ BeginRedistribution
    \/ VisitSymbol
    \/ EndPass
    \/ Return
    \/ Rerun

Spec == Init /\ [][Next]_vars

-----------------------------------------------------------------------------
(* The scorer called on its own, over snapshots with one field varied *)

NumericFields ==
    {"price", "trailingPE", "forwardPE", "dividendYield", "beta", "returnOnEquity",
     "profitMargins", "operatingMargins", "revenueGrowth", "earningsGrowth",
     "debtToEquity", "payoutRatio"}

FieldValues ==
    {Absent, Text, Num(0), Num(-3000), Num(60), Num(505), Num(1234), Num(9000), Num(800000)}

BaseSnapshots == {Bare(300000), QStrong, QWeak}

SnapshotSet ==
    {NoQuote}
    \cup {[b EXCEPT ![f] = v] : b \in BaseSnapshots, f \in NumericFields, v \in FieldValues}
    \cup {[b EXCEPT !.dividend_yield_suspicious = ~b.dividend_yield_suspicious] :
             b \in BaseSnapshots}
    \cup {[b EXCEPT !.country = c] : b \in BaseSnapshots, c \in {"", "us", "Germany"}}

CurWeightSet == {0, 599, 600, 1000, 1500}

InitScore ==
    /\ \E q \in SnapshotSet, w \in CurWeightSet, ws \in BOOLEAN :
          sc = [pc |-> "ready", quote |-> q, cur_weight |-> w, whole_shares |-> ws,
                out |-> NoSnapshotScore]
    /\ investable_cash = 0
    /\ wishlist = << >>
    /\ quotes = [sym \in Symbols |-> NoQuote]
    /\ holding_values = ZeroMap
    /\ holdings_total_value = 0
    /\ env = NoEnv
    /\ FreshCall
    /\ pc = "off"
    /\ runs = 0
    /\ first = NoResult
    /\ ny = NyIdle
    /\ fut = NoFetches
    /\ collected = {}
    /\ req = NoRequests
    /\ lw = LwIdle

\* s = _score_company(sym=..., quote=..., cur_weight=..., whole_shares=...)
ScoreCompany ==
    /\ sc.pc = "ready"
    /\ sc' = [sc EXCEPT !.pc = "scored",
                        !.out = score_company("A", sc.quote, sc.cur_weight, sc.whole_shares)]
    /\ UNCHANGED << investable_cash, wishlist, quotes, holding_values,
                    holdings_total_value, env, scored, raw_w, caps, alloc, leftover,
                    by_score, passes, idx, progressed, shares, meta, pc, runs, first,
                    ny, fut, collected, req, lw, pass_leftover >>

NextScore == ScoreCompany

SpecScore == InitScore /\ [][NextScore]_vars

-----------------------------------------------------------------------------
(* _normalize_dividend_yield, generate.py 309-341, on its own.
   Raw yields are in hundredths (5.0 is 500, 0.05 is 5), rates and prices in
   cents, and the returned yield is the exact fraction n/d. *)

NoneYield == [k |-> "none", n |-> 0, d |-> 1]

Frac(n, d) == [k |-> "num", n |-> n, d |-> d]

\* variant: a yield is never read as a percentage
normalize_no_percent(dividend_yield, dividend_rate, price) ==
    LET p  == safe_float(price, 0)
        dy == safe_float(dividend_yield, 0)
        dr == safe_float(dividend_rate, 0)
        out == IF dy > 0 THEN Frac(dy, 100)
               ELSE IF dr > 0 /\ p > 0 THEN Frac(dr, p) ELSE NoneYield
    IN  IF out.k = "none" THEN [out |-> NoneYield, suspicious |-> FALSE]
        ELSE [out |-> out, suspicious |-> 4 * out.n > out.d]

\* lines 309-341
normalize_dividend_yield(dividend_yield, dividend_rate, price) ==
    LET p  == safe_float(price, 0)
        dy == safe_float(dividend_yield, 0)
        dr == safe_float(dividend_rate, 0)
        out == IF dy > 0
               THEN IF dy > 100 /\ dy <= 10000 THEN Frac(dy, 10000) ELSE Frac(dy, 100)
               ELSE IF dr > 0 /\ p > 0 THEN Frac(dr, p) ELSE NoneYield
    IN  IF out.k = "none" THEN [out |-> NoneYield, suspicious |-> FALSE]
        ELSE IF out.n < 0 THEN [out |-> NoneYield, suspicious |-> TRUE]
        ELSE [out |-> out, suspicious |-> 4 * out.n > out.d]

\* raw yields: absent, malformed, -0.01, 0, 0.05, 0.25, 0.30, 1.0, 1.5, 5.0, 100.0, 150.0
RawYields ==
    {Absent, Text, Num(-1), Num(0), Num(5), Num(25), Num(30), Num(100), Num(150),
     Num(500), Num(10000), Num(15000)}

\* dividend rates: absent, malformed, -1.00, 0, 1.00, 2.00, 30.00
RawRates == {Absent, Text, Num(-100), Num(0), Num(100), Num(200), Num(3000)}

\* prices: absent, 0, -50.00, 4.00, 20.00, 100.00
RawPrices == {Absent, Num(0), Num(-5000), Num(400), Num(2000), Num(10000)}

InitNorm ==
    /\ \E y \in RawYields, r \in RawRates, q \in RawPrices :
          ny = [NyIdle EXCEPT !.pc = "ready", !.dividend_yield = y, !.dividend_rate = r,
                              !.price = q]
    /\ investable_cash = 0
    /\ wishlist = << >>
    /\ quotes = [sym \in Symbols |-> NoQuote]
    /\ holding_values = ZeroMap
    /\ holdings_total_value = 0
    /\ env = NoEnv
    /\ FreshCall
    /\ pc = "off"
    /\ runs = 0
    /\ first = NoResult
    /\ sc = ScIdle
    /\ fut = NoFetches
    /\ collected = {}
    /\ req = NoRequests
    /\ lw = LwIdle

\* dy_norm, dy_suspicious = _normalize_dividend_yield(...)
NormalizeDividendYield ==
    /\ ny.pc = "ready"
    /\ LET r == normalize_dividend_yield(ny.dividend_yield, ny.dividend_rate, ny.price)
       IN  ny' = [ny EXCEPT !.pc = "done", !.out = r.out, !.suspicious = r.suspicious]
    /\ UNCHANGED << investable_cash, wishlist, quotes, holding_values,
                    holdings_total_value, env, scored, raw_w, caps, alloc, leftover,
                    by_score, passes, idx, progressed, shares, meta, pc, runs, first,
                    sc, fut, collected, req, lw, pass_leftover >>

NextNorm == NormalizeDividendYield

SpecNorm == InitNorm /\ [][NextNorm]_vars

-----------------------------------------------------------------------------
(* generate_report, generate.py 801-865: the parallel fetch of the universe,
   then the holdings and the call of allocate_cash_scored *)

\* line 817 and max(1, workers) of line 819
workers == Max(1, safe_float(env.WI_QUOTE_WORKERS, 8))

\* the symbols submitted to the executor (line 812)
Universe == {sym \in Symbols : fut[sym].st # "none"}

Running == {sym \in Symbols : fut[sym].st = "running"}

\* what fetch_yahoo_snapshot returns for a symbol when it returns a snapshot
Market ==
    [sym \in Symbols |-> CASE sym = "A" -> QStrong [] sym = "B" -> QWeak
                           [] OTHER -> Bare(20000)]

\* portfolio.holdings: two units of A; portfolio.cash in mills
PortfolioQty == [ZeroMap EXCEPT !["A"] = 2]

PortfolioCash == {-50000, 1000000}

ReportWishlists == { << "A", "B" >>, << "B", "C" >> }

ReportEnvs ==
    { NoEnv,
      [NoEnv EXCEPT !.WI_QUOTE_WORKERS = Num(1), !.WI_WHOLE_SHARES = Num(1),
                    !.WI_MAX_NEW_ALLOC_PCT = Num(0), !.MAX_POSITION_WEIGHT = Num(0)] }

\* lines 809-820: the futures are submitted, nothing is in the map yet
InitReport ==
    /\ env \in ReportEnvs
    /\ wishlist \in ReportWishlists
    /\ fut = [sym \in Symbols |->
                IF PortfolioQty[sym] > 0 \/ InWishlist(sym)
                THEN [st |-> "queued", raised |-> FALSE, result |-> NoQuote]
                ELSE NoFetches[sym]]
    /\ collected = {}
    /\ req = NoRequests
    /\ lw = LwIdle
    /\ quotes = [sym \in Symbols |-> NoQuote]
    /\ investable_cash = 0
    /\ holding_values = ZeroMap
    /\ holdings_total_value = 0
    /\ FreshCall
    /\ pc = "fetch"
    /\ runs = 0
    /\ first = NoResult
    /\ sc = ScIdle
    /\ ny = NyIdle

\* a free worker of the pool takes a queued call of fetch_yahoo_snapshot
StartFetch ==
    /\ Cardinality(Running) < workers
    /\ \E sym \in Symbols :
          /\ fut[sym].st = "queued"
          /\ fut' = [fut EXCEPT ![sym].st = "running"]
    /\ UNCHANGED << investable_cash, wishlist, quotes, holding_values,
                    holdings_total_value, env, scored, raw_w, caps, alloc, leftover,
                    by_score, passes, idx, progressed, shares, meta, pc, runs, first,
                    sc, ny, collected, req, lw, pass_leftover >>

\* fetch_yahoo_snapshot returns a snapshot, returns None (line 256) or raises
FinishFetch ==
    /\ \E sym \in Symbols :
          /\ fut[sym].st = "running"
          /\ \E r \in {"snapshot", "nothing", "raised"} :
                fut' = [fut EXCEPT ![sym] =
                          [st |-> "done", raised |-> (r = "raised"),
                           result |-> IF r = "snapshot" THEN Market[sym] ELSE NoQuote]]
    /\ UNCHANGED << investable_cash, wishlist, quotes, holding_values,
                    holdings_total_value, env, scored, raw_w, caps, alloc, leftover,
                    by_score, passes, idx, progressed, shares, meta, pc, runs, first,
                    sc, ny, collected, req, lw, pass_leftover >>

\* lines 821-828: as_completed yields a finished future; its snapshot, if it has
\* one, goes into the map
\* variant: the snapshot is stored under every symbol
StoreSnapshotForAll(sym, q) == [s \in Symbols |-> q]

\* line 828: quotes[sym] = q
StoreSnapshot(sym, q) == [quotes EXCEPT ![sym] = q]

Collect ==
    /\ pc = "fetch"
    /\ \E sym \in Symbols :
          /\ fut[sym].st = "done"
          /\ sym \notin collected
          /\ collected' = collected \cup {sym}
          /\ quotes' = IF ~fut[sym].raised /\ fut[sym].result.present
                       THEN StoreSnapshot(sym, fut[sym].result)
                       ELSE quotes
    /\ UNCHANGED << investable_cash, wishlist, holding_values,
                    holdings_total_value, env, scored, raw_w, caps, alloc, leftover,
                    by_score, passes, idx, progressed, shares, meta, pc, runs, first,
                    sc, ny, fut, req, lw, pass_leftover >>

\* variant: the loop is left at the first finished future
FirstCollected == collected # {}

\* the as_completed loop has handled every submitted future (lines 820-821)
AllCollected == collected = Universe

\* line 836
MarketValue(sym) ==
    IF PortfolioQty[sym] > 0 /\ PriceOf(sym) > 0
    THEN Round2Money(PriceOf(sym) * PortfolioQty[sym]) ELSE 0

\* lines 830-865: the executor is left, holdings are valued and the allocator is called
LeaveExecutor ==
    /\ pc = "fetch"
    /\ AllCollected
    /\ holding_values' = [sym \in Symbols |-> MarketValue(sym)]
    /\ holdings_total_value' = SumSeq([i \in 1..3 |-> MarketValue(<< "A", "B", "C" >>[i])])
    /\ \E cash \in PortfolioCash : investable_cash' = Max(0, cash)
    /\ pc' = "call"
    /\ UNCHANGED << wishlist, quotes, env, scored, raw_w, caps, alloc, leftover,
                    by_score, passes, idx, progressed, shares, meta, runs, first,
                    sc, ny, fut, collected, req, lw, pass_leftover >>

NextReport ==
    \/ StartFetch
    \/ FinishFetch
    \/ Collect
    \/ LeaveExecutor
    \/ ScoreAndWeigh
    \/ ProportionalPass
    \/ RemoveDust
    \/ WholeShareRounding
    \/ BeginRedistribution
    \/ VisitSymbol
    \/ EndPass
    \/ Return
    \/ Rerun

SpecReport == InitReport /\ [][NextReport]_vars

-----------------------------------------------------------------------------
(* load_wishlist, generate.py 151-171, on its own. A ticker is a sequence of
   characters, so that strip() and upper() are computed and not assumed *)

MaxTickers == 3

UpperChar(c) == CASE c = "a" -> "A" [] c = "b" -> "B" [] OTHER -> c

\* str.upper
upper(t) == [i \in 1..Len(t) |-> UpperChar(t[i])]

RECURSIVE lstrip(_)
lstrip(t) == IF t # << >> /\ Head(t) = " " THEN lstrip(Tail(t)) ELSE t

RECURSIVE rstrip(_)
rstrip(t) ==
    IF t # << >> /\ t[Len(t)] = " " THEN rstrip(SubSeq(t, 1, Len(t) - 1)) ELSE t

\* str.strip
strip(t) == rstrip(lstrip(t))

\* variant: a key that was seen before is not recognised
NeverSeen(key, seen) == FALSE

\* lines 166-167: `if key in seen: continue`
AlreadySeen(key, seen) == key \in seen

\* lines 161-170: the loop over the stripped tickers
RECURSIVE CollectKeys(_, _, _)
CollectKeys(tickers, out, seen) ==
    IF tickers = << >> THEN out
    ELSE LET t == Head(tickers)
             key == upper(t)
         IN  IF t = << >> \/ AlreadySeen(key, seen)
             THEN CollectKeys(Tail(tickers), out, seen)
             ELSE CollectKeys(Tail(tickers), Append(out, key), seen \cup {key})

\* lines 154-157 strip every entry, lines 161-171 collect the keys
load_wishlist(tickers) ==
    CollectKeys([i \in 1..Len(tickers) |-> strip(tickers[i])], << >>, {})

\* ticker strings: empty, blank, lower and upper case, padded left and right
TickerStrings ==
    { << >>, << " " >>, << "a" >>, << "A" >>, << " ", "a" >>, << "A", " " >>,
      << "b" >>, << "a", "b" >> }

TickerLists == UNION {[1..n -> TickerStrings] : n \in 0..MaxTickers}

InitWishlist ==
    /\ \E ts \in TickerLists : lw = [pc |-> "ready", tickers |-> ts, out |-> << >>]
    /\ investable_cash = 0
    /\ wishlist = << >>
    /\ quotes = [sym \in Symbols |-> NoQuote]
    /\ holding_values = ZeroMap
    /\ holdings_total_value = 0
    /\ env = NoEnv
    /\ FreshCall
    /\ pc = "off"
    /\ runs = 0
    /\ first = NoResult
    /\ sc = ScIdle
    /\ ny = NyIdle
    /\ fut = NoFetches
    /\ collected = {}
    /\ req = NoRequests

LoadWishlist ==
    /\ lw.pc = "ready"
    /\ lw' = [lw EXCEPT !.pc = "done", !.out = load_wishlist(lw.tickers)]
    /\ UNCHANGED << investable_cash, wishlist, quotes, holding_values,
                    holdings_total_value, env, scored, raw_w, caps, alloc, leftover,
                    by_score, passes, idx, progressed, shares, meta, pc, runs, first,
                    sc, ny, fut, collected, req, pass_leftover >>

NextWishlist == LoadWishlist

SpecWishlist == InitWishlist /\ [][NextWishlist]_vars

-----------------------------------------------------------------------------
(* backend.py: the ThreadingHTTPServer serves every POST /generate on a thread
   of its own; _apply_settings (14-39) writes the settings of the body into
   os.environ, one variable at a time, and allocate_cash_scored (generate.py
   604-609), called through generate_report, reads them back one at a time.
   YF_CACHE_TTL_SECONDS (line 39) is not read by the allocator and is left out *)

MaxRequests == 2

\* lines 33-38, in the order of the calls
SettingKeys ==
    << "whole_shares", "min_order_usd", "price_tilt", "score_temperature",
       "max_new_alloc_pct", "max_position_weight" >>

\* lines 33-38: the variable each key is written to
EnvName(key) ==
    CASE key = "whole_shares" -> "WI_WHOLE_SHARES"
      [] key = "min_order_usd" -> "WI_MIN_ORDER_USD"
      [] key = "price_tilt" -> "WI_PRICE_TILT"
      [] key = "score_temperature" -> "WI_SCORE_TEMPERATURE"
      [] key = "max_new_alloc_pct" -> "WI_MAX_NEW_ALLOC_PCT"
      [] OTHER -> "MAX_POSITION_WEIGHT"

\* bool(v) of a value that is present: a number other than 0, or any text
Truthy(v) == v.k = "text" \/ (v.k = "num" /\ v.v # 0)

\* set_bool_env, lines 18-22: None writes nothing, anything else "1" or "0"
set_bool_env(v) == IF v.k = "none" THEN Absent ELSE Num(IF Truthy(v) THEN 1 ELSE 0)

\* set_num_env, lines 24-31: None and what float() rejects write nothing
set_num_env(v) == IF v.k = "num" THEN v ELSE Absent

\* the value _apply_settings writes for a key (Absent: no write)
Written(settings, key) ==
    IF key = "whole_shares" THEN set_bool_env(settings[key]) ELSE set_num_env(settings[key])

\* generate.py 604-609: the i-th read of the configuration, from os.environ as
\* it is at that moment
ReadConfigField(cfg, i) ==
    CASE i = 1 -> [cfg EXCEPT !.max_w = max_position_weight]
      [] i = 2 -> [cfg EXCEPT !.whole_shares = whole_shares]
      [] i = 3 -> [cfg EXCEPT !.min_order_usd = min_order_usd]
      [] i = 4 -> [cfg EXCEPT !.price_tilt = price_tilt]
      [] i = 5 -> [cfg EXCEPT !.softmax_temp = softmax_temp]
      [] OTHER -> [cfg EXCEPT !.max_new_alloc_pct = max_new_alloc_pct]

\* the "settings" a request body carries: none; whole shares with a minimum
\* order of 50.00; a minimum order of 10.00 with a position cap of 0.50
RequestSettings ==
    { NoSettings,
      [NoSettings EXCEPT !.is_dict = TRUE, !.whole_shares = Num(1),
                         !.min_order_usd = Num(50000)],
      [NoSettings EXCEPT !.is_dict = TRUE, !.min_order_usd = Num(10000),
                         !.max_position_weight = Num(50)] }

\* the process starts without any of the settings in its environment
InitBackend ==
    /\ req = NoRequests
    /\ env = NoEnv
    /\ investable_cash = 0
    /\ wishlist = << >>
    /\ quotes = [sym \in Symbols |-> NoQuote]
    /\ holding_values = ZeroMap
    /\ holdings_total_value = 0
    /\ FreshCall
    /\ pc = "off"
    /\ runs = 0
    /\ first = NoResult
    /\ sc = ScIdle
    /\ ny = NyIdle
    /\ fut = NoFetches
    /\ collected = {}
    /\ lw = LwIdle

\* do_POST 81-96: a thread takes a request whose body is valid
Receive(t) ==
    /\ req[t].pc = "idle"
    /\ req[t].served < MaxRequests
    /\ \E settings \in RequestSettings :
          req' = [req EXCEPT ![t] = [pc |-> "apply", settings |-> settings, k |-> 1,
                                     cfg |-> NoConfig, served |-> req[t].served]]
    /\ UNCHANGED << investable_cash, wishlist, quotes, holding_values,
                    holdings_total_value, env, scored, raw_w, caps, alloc, leftover,
                    by_score, passes, idx, progressed, shares, meta, pc, runs, first,
                    sc, ny, fut, collected, lw, pass_leftover >>

\* do_POST 82-84 and 86-96, 122-123: another path than /generate, or a body
\* without portfolio_csv or wishlist, is answered before any setting is applied
Reject(t) ==
    /\ req[t].pc = "idle"
    /\ req[t].served < MaxRequests
    /\ req' = [req EXCEPT ![t].served = @ + 1]
    /\ UNCHANGED << investable_cash, wishlist, quotes, holding_values,
                    holdings_total_value, env, scored, raw_w, caps, alloc, leftover,
                    by_score, passes, idx, progressed, shares, meta, pc, runs, first,
                    sc, ny, fut, collected, lw, pass_leftover >>

\* _apply_settings 14-39: settings that are no dict return at once; otherwise
\* one call of set_bool_env / set_num_env per step
ApplySettings(t) ==
    /\ req[t].pc = "apply"
    /\ IF ~req[t].settings.is_dict
       THEN /\ req' = [req EXCEPT ![t].pc = "report", ![t].k = 1]
            /\ env' = env
       ELSE LET key == SettingKeys[req[t].k]
                v == Written(req[t].settings, key)
            IN  /\ env' = IF v.k = "none" THEN env ELSE [env EXCEPT ![EnvName(key)] = v]
                /\ req' = IF req[t].k < Len(SettingKeys)
                             THEN [req EXCEPT ![t].k = @ + 1]
                             ELSE [req EXCEPT ![t].pc = "report", ![t].k = 1]
    /\ UNCHANGED << investable_cash, wishlist, quotes, holding_values,
                    holdings_total_value, scored, raw_w, caps, alloc, leftover,
                    by_score, passes, idx, progressed, shares, meta, pc, runs, first,
                    sc, ny, fut, collected, lw, pass_leftover >>

\* do_POST 115-119 -> generate_report -> allocate_cash_scored 604-609: one
\* read of os.environ per step
ReadConfig(t) ==
    /\ req[t].pc = "report"
    /\ req' = [req EXCEPT ![t].cfg = ReadConfigField(@, req[t].k),
                          ![t].k = IF req[t].k < 6 THEN @ + 1 ELSE 0,
                          ![t].pc = IF req[t].k < 6 THEN "report" ELSE "allocate"]
    /\ UNCHANGED << investable_cash, wishlist, quotes, holding_values,
                    holdings_total_value, env, scored, raw_w, caps, alloc, leftover,
                    by_score, passes, idx, progressed, shares, meta, pc, runs, first,
                    sc, ny, fut, collected, lw, pass_leftover >>

\* the allocation is computed with the configuration read, and do_POST 120
\* sends the report
Respond(t) ==
    /\ req[t].pc = "allocate"
    /\ req' = [req EXCEPT ![t].pc = "idle", ![t].served = @ + 1]
    /\ UNCHANGED << investable_cash, wishlist, quotes, holding_values,
                    holdings_total_value, env, scored, raw_w, caps, alloc, leftover,
                    by_score, passes, idx, progressed, shares, meta, pc, runs, first,
                    sc, ny, fut, collected, lw, pass_leftover >>

NextBackend ==
    \/ \E t \in Threads : Receive(t)
    \/ \E t \in Threads : Reject(t)
    \/ \E t \in Threads : ApplySettings(t)
    \/ \E t \in Threads : ReadConfig(t)
    \/ \E t \in Threads : Respond(t)

SpecBackend == InitBackend /\ [][NextBackend]_vars

-----------------------------------------------------------------------------
(* Properties *)

WishlistSyms == SeqToSet(wishlist)

\* the proportional pass has run
Allocated == pc \in {"dust", "round", "redistribute", "visit", "endpass", "return", "done"}

\* a symbol whose first-pass allocation was zeroed as dust
DustRemoved(sym) == FirstPassAlloc(sym) > 0 /\ FirstPassAlloc(sym) < min_order_usd

\* C1: when allocate_cash_scored returns, the allocations plus the reported
\* unallocated cash equal investable_cash within the rounding to cents (one cent
\* per wishlist symbol and one for the leftover): dust removal, whole-share
\* rounding and redistribution discard no cash.
C1_CashConserved ==
    pc = "done" =>
        Abs(Spent(alloc) + meta.unallocated_cash - investable_cash)
            <= 10 * (Len(wishlist) + 1)

\* C1 witness: a return after dust was removed and cash was redistributed, with
\* cash left over
C1_Witness ==
    /\ pc = "done"
    /\ \E sym \in WishlistSyms : DustRemoved(sym)
    /\ \E sym \in WishlistSyms : alloc[sym] > FirstPassAlloc(sym)
    /\ meta.unallocated_cash > 0

C3_Original ==
    Allocated =>
        /\ \A sym \in WishlistSyms : alloc[sym] >= 0
        /\ leftover >= 0
        /\ Spent(alloc) <= investable_cash

\* C3 amended: allocations and leftover are never negative, and the allocations
\* sum to at most investable_cash plus the rounding of allocations to cents
\* (at most one cent per wishlist symbol).
C3_NeverOverspends ==
    Allocated =>
        /\ \A sym \in WishlistSyms : alloc[sym] >= 0
        /\ leftover >= 0
        /\ Spent(alloc) <= investable_cash + 10 * Len(wishlist)

\* C3 witness: a return where rounding made the allocations sum past the cash
C3_Witness ==
    /\ pc = "done"
    /\ leftover = 0
    /\ Spent(alloc) > investable_cash

\* C4 as claimed: every returned allocation is 0 or at least the minimum order.
C4_Original ==
    pc = "done" => \A sym \in WishlistSyms : alloc[sym] = 0 \/ alloc[sym] >= min_order_usd

\* C5 as claimed: with max_new_alloc_pct > 0 no returned allocation exceeds
\* investable_cash x max_new_alloc_pct.
C5_Original ==
    (pc = "done" /\ max_new_alloc_pct > 0) =>
        \A sym \in WishlistSyms : alloc[sym] * 100 <= investable_cash * max_new_alloc_pct

\* C5 amended: with max_new_alloc_pct > 0 no allocation, after the proportional
\* pass or any redistribution step, exceeds investable_cash x max_new_alloc_pct
\* by more than the half cent that rounding to cents can add.
C5_NewMoneyCap ==
    (Allocated /\ max_new_alloc_pct > 0) =>
        \A sym \in WishlistSyms :
            alloc[sym] * 100 <= investable_cash * max_new_alloc_pct + 500

\* C5 witness: redistribution filled a symbol to the new-money cap and the
\* rounding took it past the cap
C5_Witness ==
    /\ pc = "done"
    /\ max_new_alloc_pct > 0
    /\ \E sym \in WishlistSyms :
          /\ alloc[sym] > FirstPassAlloc(sym)
          /\ alloc[sym] * 100 > investable_cash * max_new_alloc_pct

\* C6: the redistribution loop never starts a pass beyond its budget of 2000,
\* its inner index never leaves the sorted list, and when every wishlist symbol
\* has cap room 0 the call returns after at most one pass with nothing allocated
\* and the whole investable cash reported as unallocated.
C6_LoopWithinBudget ==
    /\ passes \in 0..(PassBudget - 1)
    /\ pc = "visit" => idx \in 1..Len(by_score)
    /\ (pc = "done" /\ \A sym \in WishlistSyms : caps[sym] = 0) =>
          /\ \A sym \in WishlistSyms : alloc[sym] = 0
          /\ meta.unallocated_cash = investable_cash
          /\ passes = 0

\* C6 witness: a return with cash to place and every wishlist symbol at cap
\* room 0, after the loop made its one pass over the list
C6_Witness ==
    /\ pc = "done"
    /\ investable_cash > 0
    /\ wishlist # << >>
    /\ \A sym \in WishlistSyms : caps[sym] = 0
    /\ by_score # << >>
    /\ idx = Len(by_score) + 1
    /\ meta.unallocated_cash = investable_cash

ComponentSum(out) ==
    out.components.quality + out.components.growth + out.components.value
    + out.components.income + out.components.risk + out.components.afford
    + out.components.concentration

\* C9 as claimed: for a present snapshot the final score equals
\* clamp(raw, 0, 100) of the retained raw score.
C9_Original ==
    (sc.pc = "scored" /\ sc.quote.present) =>
        /\ sc.out.score \in 0..100000
        /\ sc.out.score = clamp(sc.out.score_raw.v, 0, 100000)

\* C9 amended: for a present snapshot the final score lies in [0,100], is a
\* multiple of 0.1 and is within 0.05 of clamp(raw, 0, 100), where raw is the
\* retained raw score, itself rounded to 0.01 and within rounding (0.05 per
\* component) of 50 plus the seven reported components.
C9_ScoreIsRoundedClamp ==
    (sc.pc = "scored" /\ sc.quote.present) =>
        /\ sc.out.score \in 0..100000
        /\ sc.out.score % 100 = 0
        /\ sc.out.score_raw.k = "num"
        /\ sc.out.score_raw.v % 10 = 0
        /\ Abs(sc.out.score - clamp(sc.out.score_raw.v, 0, 100000)) <= 50
        /\ Abs(sc.out.score_raw.v - (BaseScore + ComponentSum(sc.out))) <= 7 * 50 + 5

\* C9 witness: a present snapshot whose raw score is above 100 and not a
\* multiple of 0.1, scored 100
C9_Witness ==
    /\ sc.pc = "scored"
    /\ sc.quote.present
    /\ sc.out.score_raw.v > 100000
    /\ sc.out.score_raw.v % 100 # 0
    /\ sc.out.score = 100000

\* the allocation the whole-share rounding starts from
BeforeRounding(sym) == Dusted([s \in Symbols |-> FirstPassAlloc(s)])[sym]

\* C10 as claimed: in whole-share mode every final allocation is a whole
\* multiple of the symbol's price, and 0 when the price is unknown or not positive.
C10_Original ==
    (pc = "done" /\ whole_shares) =>
        \A sym \in WishlistSyms :
            IF PriceOf(sym) > 0 THEN alloc[sym] % PriceOf(sym) = 0 ELSE alloc[sym] = 0

\* C10 amended: in whole-share mode every allocation is a whole number of shares
\* times the price up to the rounding to cents (half a cent per share at most,
\* exact when the price is in whole cents); the rounding step takes the largest
\* share count whose cost does not exceed the allocation before rounding; and a
\* symbol with unknown or non-positive price always has allocation 0.
C10_WholeShares ==
    (whole_shares /\ pc \in {"redistribute", "visit", "endpass", "return", "done"}) =>
        \A sym \in WishlistSyms :
            /\ alloc[sym] >= 0
            /\ shares[sym] >= 0
            /\ Abs(alloc[sym] - shares[sym] * PriceOf(sym)) <= 5 * Max(1, shares[sym])
            /\ PriceOf(sym) % 10 = 0 => alloc[sym] = shares[sym] * PriceOf(sym)
            /\ PriceOf(sym) <= 0 => alloc[sym] = 0
            /\ (pc = "redistribute" /\ PriceOf(sym) > 0) =>
                  /\ shares[sym] * PriceOf(sym) <= BeforeRounding(sym)
                  /\ BeforeRounding(sym) < (shares[sym] + 1) * PriceOf(sym)

\* C10 witness: a whole-share return where redistribution bought further shares
\* of a symbol whose price is not in whole cents, next to a symbol with no price
C10_Witness ==
    /\ pc = "done"
    /\ whole_shares
    /\ \E sym \in WishlistSyms :
          /\ PriceOf(sym) > 0
          /\ PriceOf(sym) % 10 # 0
          /\ shares[sym] >= 2
          /\ shares[sym] > SharesOf([s \in Symbols |-> BeforeRounding(s)], sym)
          /\ alloc[sym] # shares[sym] * PriceOf(sym)
    /\ \E sym \in WishlistSyms : PriceOf(sym) <= 0 /\ alloc[sym] = 0

\* C11 as claimed: in whole-share mode, at the return, the leftover is below the
\* price of every wishlist symbol that can still take one more share (its
\* remaining room is at least its price).
C11_Original ==
    (pc = "done" /\ whole_shares) =>
        \A sym \in WishlistSyms :
            (PriceOf(sym) > 0 /\ Room(sym) >= PriceOf(sym)) => leftover < PriceOf(sym)

\* C12 as claimed: with 10000 of cash, wishlist [A, B], no holdings and the
\* default configuration, the strong company A ends with a strictly larger
\* allocation than the weak company B.
C12_Original ==
    (/\ pc = "done"
     /\ investable_cash = 10000000
     /\ wishlist = << "A", "B" >>
     /\ env = NoEnv
     /\ quotes["A"] = QStrong
     /\ quotes["B"] = QWeak
     /\ holding_values = ZeroMap
     /\ holdings_total_value = 0) => alloc["A"] > alloc["B"]

\* C13 as claimed: a present snapshot whose dividend yield is flagged suspicious
\* gets a breakdown with a caveat note, whatever its payout ratio.
C13_Original ==
    (sc.pc = "scored" /\ sc.quote.present /\ sc.quote.dividend_yield_suspicious) =>
        sc.out.notes # << >>

\* the normalizer's numeric inputs, as it reads them
NyYield == safe_float(ny.dividend_yield, 0)

NyRate == safe_float(ny.dividend_rate, 0)

NyPrice == safe_float(ny.price, 0)

\* C14 as claimed: a negative raw yield with no usable dividend rate (no positive
\* rate with a positive price) is returned as none with suspicious = true.
C14_Original ==
    (ny.pc = "done" /\ NyYield < 0 /\ ~(NyRate > 0 /\ NyPrice > 0)) =>
        ny.out.k = "none" /\ ny.suspicious

C16_Original ==
    ny.pc = "done" =>
        \/ ny.out.k = "none"
        \/ 0 <= ny.out.n /\ ny.out.n <= ny.out.d

\* C17 as claimed: with a softmax temperature <= 0 the allocator returns no
\* allocation result.
C17_Original == softmax_temp <= 0 => ~(pc = "done" /\ meta.returned)

\* C18 as claimed: with an empty wishlist the allocator returns no allocation
\* result.
C18_Original == wishlist = << >> => ~(pc = "done" /\ meta.returned)

\* the fields of a snapshot that are missing or malformed
Missing(quote, fields) == \A f \in fields : quote[f].k # "num"

\* C19: every present snapshot, whichever of its fields are absent or
\* non-numeric, gets a breakdown; a component whose input fields are all absent
\* is exactly 0; and a snapshot without fundamentals, in fractional mode, with
\* unknown country and a current weight below 6%, scores exactly 50.
C19_MissingDataIsNeutral ==
    /\ sc.pc = "ready" => ENABLED ScoreCompany
    /\ (sc.pc = "scored" /\ sc.quote.present) =>
          LET q == sc.quote
              c == sc.out.components
          IN  /\ Missing(q, {"profitMargins", "operatingMargins", "returnOnEquity"})
                    => c.quality = 0
              /\ Missing(q, {"revenueGrowth", "earningsGrowth"}) => c.growth = 0
              /\ Missing(q, {"trailingPE", "forwardPE"}) => c.value = 0
              /\ Missing(q, {"dividendYield", "payoutRatio"}) => c.income = 0
              /\ (Missing(q, {"beta", "debtToEquity"}) /\ q.country = "") => c.risk = 0
              /\ Missing(q, {"price"}) => c.afford = 0
              /\ (Missing(q, NumericFields \ {"price"}) /\ q.country = ""
                  /\ ~sc.whole_shares /\ sc.cur_weight < 600)
                    => /\ sc.out.score = BaseScore
                       /\ sc.out.score_raw = Num(BaseScore)
                       /\ sc.out.notes = << >>

\* C19 witness: a present snapshot with a malformed field and no other
\* fundamentals was scored 50 in fractional mode
C19_Witness ==
    /\ sc.pc = "scored"
    /\ sc.quote.present
    /\ \E f \in NumericFields \ {"price"} : sc.quote[f] = Text
    /\ Missing(sc.quote, NumericFields \ {"price"})
    /\ sc.quote.country = ""
    /\ ~sc.whole_shares
    /\ sc.cur_weight < 600
    /\ sc.out.score = BaseScore

\* the map holds exactly the snapshots that the fetches returned
QuotesAreFetchResults ==
    \A sym \in Symbols :
        /\ sym \in Universe => fut[sym].st = "done" /\ sym \in collected
        /\ quotes[sym].present <=>
              (sym \in Universe /\ ~fut[sym].raised /\ fut[sym].result.present)
        /\ quotes[sym].present => quotes[sym] = fut[sym].result

\* C20: in generate_report, scoring and allocation start only after the fetch of
\* every symbol of the universe has returned or failed; from then on the quotes
\* map holds a symbol if and only if its fetch returned a snapshot (a fetch that
\* raised or returned nothing is an absent snapshot), and no step after the
\* start of the allocation changes the map or a future.
C20_FetchCompleteBeforeAllocation ==
    /\ [](pc # "fetch" => QuotesAreFetchResults)
    /\ [][pc # "fetch" => (quotes' = quotes /\ fut' = fut /\ collected' = collected)]_vars

\* C20 witness: the allocation returned after one fetch raised, one returned
\* nothing and one returned a snapshot
C20_Witness ==
    /\ pc = "done"
    /\ meta.returned
    /\ \E sym \in Universe : fut[sym].raised /\ ~quotes[sym].present
    /\ \E sym \in Universe :
          ~fut[sym].raised /\ ~fut[sym].result.present /\ ~quotes[sym].present
    /\ \E sym \in Universe : quotes[sym].present

\* position of a symbol in the wishlist
WishlistIndex(sym) == CHOOSE i \in 1..Len(wishlist) : wishlist[i] = sym

\* by_score lists every scored symbol once, by descending raw score, equal raw
\* scores in wishlist order
VisitOrder ==
    /\ Len(by_score) = Len(scored)
    /\ \A i \in 1..Len(scored) : \E j \in 1..Len(by_score) : by_score[j] = scored[i]
    /\ \A i, j \in 1..Len(by_score) :
          i < j =>
             /\ by_score[i].raw >= by_score[j].raw
             /\ by_score[i].raw = by_score[j].raw =>
                   WishlistIndex(by_score[i].sym) < WishlistIndex(by_score[j].sym)

\* C23: in every pass of the redistribution the symbols are visited in
\* descending raw-score order, equal raw scores in wishlist order: the list walked
\* is sorted that way, a visit changes the allocation of the symbol at the
\* current index only, and the next visit of the pass is at the next index.
C23_DescendingScoreOrder ==
    /\ [](pc \in {"visit", "endpass"} => VisitOrder)
    /\ [][pc = "visit" =>
            /\ \A sym \in Symbols : alloc'[sym] # alloc[sym] => sym = by_score[idx].sym
            /\ pc' = "visit" => idx' = idx + 1
            /\ by_score' = by_score]_vars

\* C23 witness: the second-best symbol is being offered leftover after the best
\* one, which stands later in the wishlist, took some
C23_Witness ==
    /\ pc = "visit"
    /\ idx = 2
    /\ progressed
    /\ by_score[1].raw > by_score[2].raw
    /\ by_score[1].sym = wishlist[2]
    /\ by_score[2].sym = wishlist[1]

\* C24 as claimed: no step of the redistribution changes an allocation while
\* the leftover is below the minimum order, whether the leftover entered the
\* redistribution below it or dropped below it on the way.
C24_Original ==
    [][(pc \in {"redistribute", "visit", "endpass"} /\ leftover < min_order_usd)
          => alloc' = alloc]_vars

\* the key of the i-th input ticker, compared without regard to case or padding
LwKey(i) == upper(strip(lw.tickers[i]))

\* positions of the input at which a non-empty key occurs for the first time
LwFirst == {i \in 1..Len(lw.tickers) :
               LwKey(i) # << >> /\ \A j \in 1..(i - 1) : LwKey(j) # LwKey(i)}

\* the k-th first occurrence, in input order
LwNth(k) == CHOOSE i \in LwFirst : Cardinality({j \in LwFirst : j < i}) = k - 1

\* C21: load_wishlist returns upper-cased symbols without duplicates and without
\* empty entries, each at the position of its first case-insensitive occurrence
\* in the input, and loading its own output returns that output.
C21_LoadWishlist ==
    lw.pc = "done" =>
        /\ \A i \in 1..Len(lw.out) : lw.out[i] # << >> /\ upper(lw.out[i]) = lw.out[i]
        /\ \A i, j \in 1..Len(lw.out) : i # j => lw.out[i] # lw.out[j]
        /\ Len(lw.out) = Cardinality(LwFirst)
        /\ \A k \in 1..Len(lw.out) : lw.out[k] = LwKey(LwNth(k))
        /\ load_wishlist(lw.out) = lw.out

\* C21 witness: three tickers, the third repeating the first in another case and
\* padding, were loaded into two symbols.
C21_Witness ==
    /\ lw.pc = "done"
    /\ Len(lw.tickers) = 3
    /\ lw.tickers[1] # lw.tickers[3]
    /\ LwKey(1) = LwKey(3)
    /\ LwKey(2) \notin {<< >>, LwKey(1)}
    /\ Len(lw.out) = 2

\* the documented defaults: max-position-weight 0.20, whole-unit off, min-order
\* 25, price-tilt 0.20, temperature 10, max-new-alloc-fraction 0.40
DefaultConfig ==
    [max_w |-> 20, whole_shares |-> FALSE, min_order_usd |-> 25000, price_tilt |-> 20,
     softmax_temp |-> 100, max_new_alloc_pct |-> 40]

\* C22 as claimed: a request without settings is allocated with the documented
\* defaults whatever requests the process served before it (here no other
\* thread has served or is serving anything, so the earlier requests came one
\* after the other).
C22_Original ==
    \A t \in Threads :
        (/\ req[t].pc = "allocate"
         /\ ~req[t].settings.is_dict
         /\ \A u \in Threads \ {t} : req[u].pc = "idle" /\ req[u].served = 0)
            => req[t].cfg = DefaultConfig

\* C27 as claimed: the configuration a request's allocate_cash_scored has read
\* holds, for every setting its own body supplied, the value of that body.
C27_Original ==
    \A t \in Threads :
        req[t].pc = "allocate" =>
            LET st == req[t].settings
                cfg == req[t].cfg
            IN  /\ st.whole_shares.k # "none" => cfg.whole_shares = Truthy(st.whole_shares)
                /\ st.min_order_usd.k = "num" => cfg.min_order_usd = st.min_order_usd.v
                /\ st.price_tilt.k = "num" => cfg.price_tilt = st.price_tilt.v
                /\ st.score_temperature.k = "num" =>
                       cfg.softmax_temp = st.score_temperature.v
                /\ st.max_new_alloc_pct.k = "num" =>
                       cfg.max_new_alloc_pct = st.max_new_alloc_pct.v
                /\ st.max_position_weight.k = "num" =>
                       cfg.max_w = st.max_position_weight.v

\* the quality terms as claimed: every field that holds a number contributes
ClaimedQuality(quote) ==
      (IF quote.profitMargins.k = "num"
       THEN clamp((quote.profitMargins.v - 500) * 5, -10000, 10000) ELSE 0)
    + (IF quote.operatingMargins.k = "num"
       THEN clamp((quote.operatingMargins.v - 800) * 4, -8000, 8000) ELSE 0)
    + (IF quote.returnOnEquity.k = "num"
       THEN clamp((quote.returnOnEquity.v - 1000) * 4, -10000, 10000) ELSE 0)

\* C25 as claimed: every quality field that is present, a present 0 included,
\* contributes its clamped and scaled term to the quality component, and only
\* an absent field contributes 0.
C25_Original ==
    (sc.pc = "scored" /\ sc.quote.present) =>
        sc.out.components.quality = Round1Score(ClaimedQuality(sc.quote))

C29_Original ==
    (pc = "done" /\ ~whole_shares /\ min_order_usd > 0) =>
        /\ \A sym \in WishlistSyms : Min(leftover, Room(sym)) < min_order_usd
        /\ passes <= 1

\* C30 as claimed: a redistribution pass that is counted as progress has
\* strictly decreased the leftover, whatever the minimum order (0 and below
\* included), so that a pass which moves no cash ends the loop.
C30_Original ==
    (pc = "endpass" /\ progressed) => leftover < pass_leftover

\* C26: scoring and allocation leave their inputs alone: no step of
\* allocate_cash_scored, which calls _score_company on every snapshot, changes
\* the wishlist, the quotes map or the holding values it was called with, and a
\* snapshot that was stored in the quotes map is never changed afterwards.
C26_InputsUntouched ==
    [][/\ pc # "fetch" => UNCHANGED << wishlist, quotes, holding_values >>
       /\ \A sym \in Symbols : quotes[sym].present => quotes'[sym] = quotes[sym]]_vars

\* C26 witness: a report's allocation returned after scoring two stored
\* snapshots and giving cash to a symbol, with a holding valued from its quote.
C26_Witness ==
    /\ pc = "done"
    /\ meta.returned
    /\ Cardinality({sym \in WishlistSyms : quotes[sym].present}) >= 2
    /\ \E sym \in WishlistSyms : quotes[sym].present /\ alloc[sym] > 0
    /\ \E sym \in Symbols : holding_values[sym] > 0

=============================================================================
